---------------------------- MODULE Spec2Model ----------------------------
(***************************************************************************)
(* Model of the Draw.io plugin for Obsidian (src/src/main.ts):             *)
(*   - DrawioPlugin: settings load/save, theme resolution;                 *)
(*   - DrawioView: one pane hosting the embedded editor, its message       *)
(*     handler (init / save / exit / modified) and the asynchronous vault  *)
(*     reads and writes the handler awaits;                                *)
(*   - DrawioSettingTab: the two write-through settings controls.          *)
(* An async handler is split at its awaits on real I/O: the part that runs *)
(* synchronously with the event, the moment the vault operation takes      *)
(* effect, and the continuation that runs once the promise has settled.    *)
(***************************************************************************)
EXTENDS Integers, Sequences, FiniteSets, TLC

(***************************************************************************)
(* Bounds of the model.                                                    *)
(***************************************************************************)
MaxMsgs == 2        \* message events dispatched to the window in one run
MaxPending == 2     \* handlers of one pane suspended on vault I/O at a time
StartTime == 3000   \* Date.now() at the start of a run (ms)
MaxTicks == 2       \* times the clock is seen to advance in one run
MaxSaving == 2      \* saveSettings() calls awaiting saveData at a time
MaxCreates == 2     \* createNewDiagram() calls in one run

Panes == {"p1", "p2"}
Paths == {"a.drawio", "b.drawio"}
Contents == {"", "c1"}     \* the xml an editor may send in a save message
Template == "c0"          \* what a diagram file holds before its first save
\* The path a pane is asked to open.
HomePath(p) == IF p = "p1" THEN "a.drawio" ELSE "b.drawio"
Absent == "<absent>"      \* getAbstractFileByPath(path) === null
Folder == "<folder>"      \* getAbstractFileByPath(path) instanceof TFolder
NoFile == "<null>"        \* DrawioView.file === null
Null == [null |-> TRUE]   \* a null / undefined object

(***************************************************************************)
(* Program constants.                                                      *)
(***************************************************************************)
EmbedOrigin == "https://embed.diagrams.net"
Origins == {EmbedOrigin, "https://evil.example"}
ThrottleMs == 2000
Themes == {"system", "light", "dark"}
Folders == {"", "Diagrams", "X"}       \* what the user may type in the folder field
StoredFolders == {"", "Old"}           \* folders a settings file found at start-up names
SettingKeys == <<"theme", "defaultFolder">>
DEFAULT_SETTINGS == [theme |-> "system", defaultFolder |-> "Diagrams"]

VARIABLES
    settings,           \* DrawioPlugin.settings (Null before loadSettings)
    stored,             \* the persisted settings file: whether it exists, its key/value pairs
    systemDark,         \* systemDarkModeQuery.matches
    saving,             \* saveSettings() calls suspended at their await of saveData
    vault,              \* path -> content of the file, or Absent
    view,               \* pane -> "none" | "open" | "closed"
    file,               \* DrawioView.file: pane -> bound path, or Null
    hasUnsavedChanges,  \* DrawioView.hasUnsavedChanges
    lastSaveTime,       \* DrawioView.lastSaveTime
    pending,            \* pane -> handlers suspended on a vault read or write
    now,                \* Date.now()
    msgs,               \* message events dispatched so far
    creates,            \* createNewDiagram() calls made so far
    last,               \* the operation that produced this state
    posted,             \* pane -> commands posted to its iframe by that operation
    notices,            \* pane -> notices shown by that pane in that operation
    prompts             \* pane -> confirm() dialogs shown in that operation

vars == <<settings, stored, systemDark, saving, vault, view, file,
          hasUnsavedChanges, lastSaveTime, pending, now, msgs, creates, last,
          posted, notices, prompts>>

settingsVars == <<settings, stored, systemDark, saving>>
paneVars == <<file, hasUnsavedChanges, lastSaveTime, pending>>

NoPosts == [p \in Panes |-> <<>>]
NoNotices == [p \in Panes |-> <<>>]
NoPrompts == [p \in Panes |-> 0]
Quiet == posted' = NoPosts /\ notices' = NoNotices /\ prompts' = NoPrompts

NoAnswers == [p \in Panes |-> FALSE]

\* The record of an operation: what ran, on which pane, the event it handled and,
\* per pane, whether the user confirmed a prompt it showed.
NoSave == "<no save>"

\* The record of an operation: what ran, on which pane, the event it handled,
\* per pane whether the user confirmed a prompt it showed, and for the steps of
\* a suspended handler the bookkeeping of that handler (see Suspended); the
\* notices the plugin itself showed, whether a beforeunload event was
\* intercepted, for a createNewDiagram() call its inputs and outcome, and for the
\* steps of a suspended save handler the time it captured.
NoCall == [made |-> FALSE]
Op(op, pane, origin, data) ==
    [op |-> op, pane |-> pane, origin |-> origin, data |-> data,
     confirmed |-> NoAnswers, after |-> NoSave, clean |-> FALSE,
     shown |-> <<>>, prevented |-> FALSE, call |-> NoCall, currentTime |-> 0,
     latest |-> FALSE]

NoData == [event |-> "-", xml |-> ""]

RemoveAt(s, i) == SubSeq(s, 1, i - 1) \o SubSeq(s, i + 1, Len(s))

(***************************************************************************)
(* Settings: loadSettings / saveSettings and the JSON file behind          *)
(* loadData / saveData.                                                    *)
(***************************************************************************)
\* JSON.stringify of a settings object: its own keys, in insertion order.
RECURSIVE StringifyFrom(_, _)
StringifyFrom(obj, i) ==
    IF i > Len(SettingKeys) THEN <<>>
    ELSE (IF SettingKeys[i] \in DOMAIN obj
             THEN << <<SettingKeys[i], obj[SettingKeys[i]]>> >>
             ELSE <<>>) \o StringifyFrom(obj, i + 1)

\* Mutant: only the theme is serialised.
JSONstringifyThemeOnly(obj) == << <<"theme", obj.theme>> >>

JSONstringify(obj) == StringifyFrom(obj, 1)

\* JSON.parse of the stored pairs: an object holding the last value of each key.
KeysOf(text) == {text[i][1] : i \in 1..Len(text)}
LastIndex(text, k) ==
    CHOOSE i \in 1..Len(text) :
        text[i][1] = k /\ \A j \in (i + 1)..Len(text) : text[j][1] # k
JSONparse(text) == [k \in KeysOf(text) |-> text[LastIndex(text, k)][2]]

\* Plugin.loadData(): null when nothing was ever saved.
loadData == IF ~stored.exists THEN Null ELSE JSONparse(stored.text)

\* Mutant: the sources are merged in the wrong order, the defaults win.
ObjectAssignDefaultsWin(a, b) ==
    IF b = Null THEN a
    ELSE [k \in (DOMAIN a) \cup (DOMAIN b) |-> IF k \in DOMAIN a THEN a[k] ELSE b[k]]

\* Mutant: the stored object is taken as it is, without the defaults.
ObjectAssignNoDefaults(a, b) == IF b = Null THEN a ELSE b

\* Object.assign({}, a, b): b's own keys override a's; a null source is skipped.
ObjectAssign(a, b) ==
    IF b = Null THEN a
    ELSE [k \in (DOMAIN a) \cup (DOMAIN b) |-> IF k \in DOMAIN b THEN b[k] ELSE a[k]]

\* Mutant: the theme setting is passed on as it is, 'system' included.
getCurrentThemeRaw(s, dark) == s.theme

\* getCurrentTheme(): 'dark' | 'light'
getCurrentTheme(s, dark) ==
    IF s.theme = "system" THEN (IF dark THEN "dark" ELSE "light") ELSE s.theme

ThemeCommand(value) == [action |-> "theme", value |-> value]

\* iframe?.contentWindow: present while the pane's iframe is attached.
HasContentWindow(p) == view[p] = "open"

\* updateTheme() on one view
updateTheme(p, s, dark) ==
    IF HasContentWindow(p) THEN <<ThemeCommand(getCurrentTheme(s, dark))>> ELSE <<>>

\* iterateAllLeaves(leaf => leaf.view instanceof DrawioView && leaf.view.updateTheme())
UpdateAllThemes(s, dark) ==
    [p \in Panes |-> IF view[p] = "open" THEN updateTheme(p, s, dark) ELSE <<>>]

\* loadSettings()
LoadSettings ==
    /\ settings' = ObjectAssign(DEFAULT_SETTINGS, loadData)
    /\ last' = Op("loadSettings", "-", "-", NoData)
    /\ Quiet
    /\ UNCHANGED <<stored, systemDark, saving, vault, view, paneVars, now, msgs,
                   creates>>

\* Mutant: the panes are notified before the record is persisted.
saveSettingsNotifiesFirst(s) ==
    /\ saving < MaxSaving
    /\ stored' = [exists |-> TRUE, text |-> JSONstringify(s)]
    /\ saving' = saving + 1
    /\ posted' = UpdateAllThemes(s, systemDark)

\* saveSettings(), as called with the in-memory settings s, up to its await:
\* saveData(s) serialises s and writes the settings file.
saveSettings(s) ==
    /\ saving < MaxSaving
    /\ stored' = [exists |-> TRUE, text |-> JSONstringify(s)]
    /\ saving' = saving + 1
    /\ posted' = NoPosts

\* saveSettings() after the await: every open diagram pane is sent the theme
\* resolved from the settings as they are now.
SaveSettingsResume ==
    /\ saving > 0
    /\ saving' = saving - 1
    /\ posted' = UpdateAllThemes(settings, systemDark)
    /\ last' = Op("settingsSaved", "-", "-", NoData)
    /\ notices' = NoNotices /\ prompts' = NoPrompts
    /\ UNCHANGED <<settings, stored, systemDark, vault, view, paneVars, now, msgs,
                   creates>>

\* The value a settings control hands to its onChange callback.
Chosen(value) == [event |-> "onChange", value |-> value]

\* theme dropdown onChange
ChangeTheme(value) ==
    /\ settings # Null
    /\ settings' = [settings EXCEPT !.theme = value]
    /\ saveSettings(settings')
    /\ last' = Op("changeTheme", "-", "-", Chosen(value))
    /\ notices' = NoNotices /\ prompts' = NoPrompts
    /\ UNCHANGED <<systemDark, vault, view, paneVars, now, msgs, creates>>

\* Mutant: the folder is set in memory and never saved.
ChangeFolderUnsaved(value) ==
    /\ settings # Null
    /\ settings' = [settings EXCEPT !.defaultFolder = value]
    /\ last' = Op("changeFolder", "-", "-", Chosen(value))
    /\ Quiet
    /\ UNCHANGED <<stored, systemDark, saving, vault, view, paneVars, now, msgs,
                   creates>>

\* default-folder text onChange
ChangeFolder(value) ==
    /\ settings # Null
    /\ settings' = [settings EXCEPT !.defaultFolder = value]
    /\ saveSettings(settings')
    /\ last' = Op("changeFolder", "-", "-", Chosen(value))
    /\ notices' = NoNotices /\ prompts' = NoPrompts
    /\ UNCHANGED <<systemDark, vault, view, paneVars, now, msgs, creates>>

\* handleSystemThemeChange(), fired when the OS colour scheme flips
SystemThemeChange ==
    /\ settings # Null
    /\ systemDark' = ~systemDark
    /\ posted' = UpdateAllThemes(settings, systemDark')
    /\ last' = Op("systemTheme", "-", "-", NoData)
    /\ notices' = NoNotices /\ prompts' = NoPrompts
    /\ UNCHANGED <<settings, stored, saving, vault, view, paneVars, now, msgs,
                   creates>>

(***************************************************************************)
(* DrawioView: lifecycle.                                                  *)
(***************************************************************************)
\* getAbstractFileByPath(path) in the vault v: the content of the file, Folder
\* for a folder, Absent when nothing is there
Lookup(v, path) == IF path \in DOMAIN v THEN v[path] ELSE Absent

\* getAbstractFileByPath(path) instanceof TFile
IsTFileIn(v, path) == path # NoFile /\ Lookup(v, path) \notin {Absent, Folder}
IsTFile(path) == IsTFileIn(vault, path)

\* Mutant: the state is ignored, the pane keeps the file it had.
setStateInKeepsFile(v, p, path) == file[p]

\* setState(state) with the vault as v: binds the file only when state.file
\* resolves to a file
setStateIn(v, p, path) == IF IsTFileIn(v, path) THEN path ELSE file[p]
setState(p, path) == setStateIn(vault, p, path)

\* A leaf is given the drawio view type with state {file: path}: the view is
\* constructed, onOpen() builds the iframe and registers the listeners, and
\* setState() binds the file.
OpenPane(p, path) ==
    /\ settings # Null
    /\ view[p] = "none"
    /\ view' = [view EXCEPT ![p] = "open"]
    /\ file' = [file EXCEPT ![p] = setState(p, path)]
    /\ last' = Op("open", p, "-", NoData)
    /\ Quiet
    /\ UNCHANGED <<settingsVars, vault, hasUnsavedChanges, lastSaveTime,
                   pending, now, msgs, creates>>

\* onClose(): removeEventListener is given a fresh bound function, which is not
\* the listener onOpen registered; the host detaches the pane's iframe.
ListenerRemovedOnClose == FALSE

ClosePane(p) ==
    /\ view[p] = "open"
    /\ view' = [view EXCEPT ![p] = "closed"]
    /\ last' = Op("close", p, "-", NoData)
    /\ Quiet
    /\ UNCHANGED <<settingsVars, vault, paneVars, now, msgs, creates>>

\* The window 'beforeunload' listener of pane p is registered: onOpen() adds it
\* as an anonymous function and nothing removes it.
Guarding(p) == view[p] # "none"

\* A beforeunload event on the window: every registered listener runs, and the
\* close is intercepted when one of them calls preventDefault(). The window is
\* taken to stay open afterwards.
BeforeUnload ==
    /\ last' = [Op("beforeunload", "-", "-", NoData) EXCEPT
                  !.prevented = \E p \in Panes : Guarding(p) /\ hasUnsavedChanges[p]]
    /\ Quiet
    /\ UNCHANGED <<settingsVars, vault, view, paneVars, now, msgs, creates>>

\* The window 'message' listener of pane p is registered.
Listening(p) ==
    \/ view[p] = "open"
    \/ view[p] = "closed" /\ ~ListenerRemovedOnClose

(***************************************************************************)
(* DrawioView: the message handler.                                        *)
(***************************************************************************)
Malformed == "<not json>"
Events == {"init", "save", "exit", "modified", "autosave", Malformed}
Messages ==
    {[event |-> e, xml |-> ""] : e \in Events \ {"save"}}
        \cup {[event |-> "save", xml |-> c] : c \in Contents}

\* What the user may answer to the confirm() dialogs an event brings up.
Answers(data) ==
    IF data.event = "exit" THEN [Panes -> BOOLEAN] ELSE {NoAnswers}

\* Mutant: the origin is not checked.
TrustedOriginAny(origin) == TRUE

\* event.origin !== 'https://embed.diagrams.net' -> return
TrustedOrigin(origin) == origin = EmbedOrigin

\* Mutant: every payload parses.
ParsesAnything(data) == TRUE

\* JSON.parse(event.data) returns (does not throw)
Parses(data) == data.event # Malformed

LoadCommand(content) == [action |-> "load", xml |-> content, autosave |-> 1]
\* Mutant: an empty diagram is sent as a load of nothing.
BlankAsEmptyLoad == [action |-> "load", xml |-> "", autosave |-> 1]

BlankCommand == [action |-> "blank"]
SaveCommand == [action |-> "save"]

\* this.iframe.contentWindow?.postMessage(JSON.stringify(cmd), '*')
PostMessage(p, cmd) == IF HasContentWindow(p) THEN <<cmd>> ELSE <<>>

\* Mutant: a save exactly one window after the last notice is notified too.
SaveNoticeDueInclusive(currentTime, lastSave) == currentTime - lastSave >= ThrottleMs

\* currentTime - this.lastSaveTime > 2000
SaveNoticeDue(currentTime, lastSave) == currentTime - lastSave > ThrottleMs

\* What a handler run yields for its pane: the pane's fields, the handlers left
\* suspended, and what the run posted, showed and asked.
Same(p) ==
    [dirty |-> hasUnsavedChanges[p], lastSave |-> lastSaveTime[p],
     pend |-> pending[p], posted |-> <<>>, notices |-> <<>>, prompts |-> 0]

\* A handler suspended on vault I/O: the locals it resumes with (path, xml,
\* currentTime) and three fields that only record history:
\*   latest - for a save, no save message has reached the pane since this one;
\*   after - for an init, the xml of the save that the pane handled in the step
\*           right before this init was dispatched (NoSave when there was none);
\*   clean - for a save, its write has landed and nothing has written or deleted
\*           the file since; for an init, that held of the save named by `after`
\*           when the init was dispatched and still holds as the read takes place.
Suspended(kind, stage, path, xml, currentTime, after, clean) ==
    [kind |-> kind, stage |-> stage, path |-> path, xml |-> xml,
     currentTime |-> currentTime, after |-> after, clean |-> clean,
     latest |-> FALSE]

\* The handlers suspended for pane p, as a further save message reaches it.
Superseded(p) ==
    [i \in 1..Len(pending[p]) |-> [pending[p][i] EXCEPT !.latest = FALSE]]

\* The save the pane handled in the step that produced the current state.
SaveJustHandled(p) ==
    IF last.op = "message" /\ last.origin = EmbedOrigin /\ last.data.event = "save"
         /\ view[p] # "none"
    THEN last.data.xml
    ELSE IF last.op \in {"writeLand", "saveDone"} /\ last.pane = p
         THEN last.data.xml
         ELSE NoSave
SaveJustLanded(p) ==
    /\ last.op \in {"writeLand", "saveDone"}
    /\ last.pane = p
    /\ last.clean

\* case 'save', after `await this.saveDiagram(message.xml)` has returned
AfterSave(p, currentTime, r) ==
    IF SaveNoticeDue(currentTime, r.lastSave)
    THEN [r EXCEPT !.dirty = FALSE, !.notices = <<"Diagram saved">>,
                   !.lastSave = currentTime]
    ELSE [r EXCEPT !.dirty = FALSE]

\* case 'save' up to the vault write: saveDiagram() returns at once when no file
\* is bound or the bound path no longer resolves, else it awaits vault.modify.
SaveStart(p, xml) ==
    IF file[p] = NoFile \/ ~IsTFile(file[p])
    THEN AfterSave(p, now, [Same(p) EXCEPT !.pend = Superseded(p)])
    ELSE [Same(p) EXCEPT
            !.pend = Append(Superseded(p),
                            [Suspended("save", "writing", file[p], xml, now,
                                       NoSave, FALSE) EXCEPT !.latest = TRUE])]

\* Mutant: a (re)load of the diagram also resets the dirty flag.
LoadStartResetsDirty(p) ==
    IF file[p] = NoFile \/ ~IsTFile(file[p])
    THEN [Same(p) EXCEPT !.dirty = FALSE]
    ELSE [Same(p) EXCEPT
            !.dirty = FALSE,
            !.pend = Append(@, Suspended("init", "reading", file[p], "", 0,
                                         SaveJustHandled(p), SaveJustLanded(p)))]

\* case 'init' up to the vault read: loadDiagram() returns at once when no file
\* is bound or the bound path no longer resolves, else it awaits vault.read.
LoadStart(p) ==
    IF file[p] = NoFile \/ ~IsTFile(file[p])
    THEN Same(p)
    ELSE [Same(p) EXCEPT
            !.pend = Append(@, Suspended("init", "reading", file[p], "", 0,
                                         SaveJustHandled(p), SaveJustLanded(p)))]

\* Mutant: the save command is posted whatever the user answers.
ExitIgnoresAnswer(p, answer) ==
    IF hasUnsavedChanges[p]
    THEN [Same(p) EXCEPT !.prompts = 1, !.posted = PostMessage(p, SaveCommand)]
    ELSE Same(p)

\* case 'exit'
Exit(p, answer) ==
    IF hasUnsavedChanges[p]
    THEN [Same(p) EXCEPT !.prompts = 1,
            !.posted = IF answer THEN PostMessage(p, SaveCommand) ELSE <<>>]
    ELSE Same(p)

\* Mutant: a modification also restarts the notification throttle.
ModifiedStampsTime(p) == [Same(p) EXCEPT !.dirty = TRUE, !.lastSave = now]

\* case 'modified'
Modified(p) == [Same(p) EXCEPT !.dirty = TRUE]

\* handleMessage(event), up to its first await on vault I/O
handleMessage(p, origin, data, answer) ==
    IF ~TrustedOrigin(origin) THEN Same(p)
    ELSE IF ~Parses(data)
         THEN [Same(p) EXCEPT !.notices = <<"Error handling Draw.io operation">>]
    ELSE CASE data.event = "init" -> LoadStart(p)
           [] data.event = "save" -> SaveStart(p, data.xml)
           [] data.event = "exit" -> Exit(p, answer)
           [] data.event = "modified" -> Modified(p)
           [] OTHER -> Same(p)

\* A message event on the window, posted by the editor of pane source ("-" when
\* it is not told which): every registered listener runs, and none looks at
\* event.source.
DispatchFrom(source, origin, data, answers) ==
    /\ msgs < MaxMsgs
    /\ LET H(p) == IF Listening(p)
                   THEN handleMessage(p, origin, data, answers[p])
                   ELSE Same(p)
       IN  /\ \A p \in Panes : Len(H(p).pend) <= MaxPending
           /\ hasUnsavedChanges' = [p \in Panes |-> H(p).dirty]
           /\ lastSaveTime' = [p \in Panes |-> H(p).lastSave]
           /\ pending' = [p \in Panes |-> H(p).pend]
           /\ posted' = [p \in Panes |-> H(p).posted]
           /\ notices' = [p \in Panes |-> H(p).notices]
           /\ prompts' = [p \in Panes |-> H(p).prompts]
           /\ last' = [Op("message", source, origin, data) EXCEPT
                         !.confirmed = [p \in Panes |-> H(p).prompts = 1 /\ answers[p]]]
    /\ msgs' = msgs + 1
    /\ UNCHANGED <<settingsVars, vault, view, file, now, creates>>

Dispatch(origin, data, answers) == DispatchFrom("-", origin, data, answers)

\* The editor in the iframe of pane source posts a message to the window.
EditorPosts(source, data, answers) ==
    /\ HasContentWindow(source)
    /\ DispatchFrom(source, EmbedOrigin, data, answers)

(***************************************************************************)
(* The vault operations a suspended handler awaits, and its continuation.  *)
(***************************************************************************)
Handler(p, i) == pending[p][i]
Is(p, i, kind, stage) ==
    /\ i \in 1..Len(pending[p])
    /\ Handler(p, i).kind = kind
    /\ Handler(p, i).stage = stage

OpOf(op, p, i) ==
    [Op(op, p, EmbedOrigin, [event |-> Handler(p, i).kind, xml |-> Handler(p, i).xml])
       EXCEPT !.after = Handler(p, i).after, !.clean = Handler(p, i).clean,
              !.currentTime = Handler(p, i).currentTime,
              !.latest = Handler(p, i).latest]

\* The file at path is written or deleted: no handler waiting on it is clean.
Touch(path) ==
    [p \in Panes |->
       [i \in 1..Len(pending[p]) |->
          IF pending[p][i].path = path /\ pending[p][i].stage \in {"reading", "written"}
          THEN [pending[p][i] EXCEPT !.clean = FALSE]
          ELSE pending[p][i]]]

\* vault.modify(file, xml) takes effect: the file's content is xml.
Written(xml) == xml

WriteLand(p, i) ==
    /\ Is(p, i, "save", "writing")
    /\ vault[Handler(p, i).path] # Absent
    /\ vault' = [vault EXCEPT ![Handler(p, i).path] = Written(Handler(p, i).xml)]
    /\ pending' = [Touch(Handler(p, i).path) EXCEPT ![p][i].stage = "written",
                                                     ![p][i].clean = TRUE]
    /\ last' = [OpOf("writeLand", p, i) EXCEPT !.clean = TRUE]
    /\ Quiet
    /\ UNCHANGED <<settingsVars, view, file, hasUnsavedChanges, lastSaveTime,
                   now, msgs, creates>>

\* Mutant: the handler goes on after the failed write as after a successful one.
WriteFailThenSaved(p, i) ==
    /\ Is(p, i, "save", "writing")
    /\ LET r == AfterSave(p, Handler(p, i).currentTime, Same(p))
       IN  /\ hasUnsavedChanges' = [hasUnsavedChanges EXCEPT ![p] = r.dirty]
           /\ lastSaveTime' = [lastSaveTime EXCEPT ![p] = r.lastSave]
           /\ notices' = [NoNotices EXCEPT ![p] = <<"Error saving diagram">> \o r.notices]
    /\ pending' = [pending EXCEPT ![p] = RemoveAt(@, i)]
    /\ posted' = NoPosts /\ prompts' = NoPrompts
    /\ last' = OpOf("writeFail", p, i)
    /\ UNCHANGED <<settingsVars, vault, view, file, now, msgs, creates>>

\* vault.modify rejects: saveDiagram's catch shows its notice and rethrows,
\* handleMessage's catch shows its own.
WriteFail(p, i) ==
    /\ Is(p, i, "save", "writing")
    /\ pending' = [pending EXCEPT ![p] = RemoveAt(@, i)]
    /\ notices' = [NoNotices EXCEPT
                     ![p] = <<"Error saving diagram", "Error handling Draw.io operation">>]
    /\ posted' = NoPosts /\ prompts' = NoPrompts
    /\ last' = OpOf("writeFail", p, i)
    /\ UNCHANGED <<settingsVars, vault, view, file, hasUnsavedChanges,
                   lastSaveTime, now, msgs, creates>>

\* The save handler resumes after vault.modify resolved.
SaveResume(p, i) ==
    /\ Is(p, i, "save", "written")
    /\ LET r == AfterSave(p, Handler(p, i).currentTime, Same(p))
       IN  /\ hasUnsavedChanges' = [hasUnsavedChanges EXCEPT ![p] = r.dirty]
           /\ lastSaveTime' = [lastSaveTime EXCEPT ![p] = r.lastSave]
           /\ notices' = [NoNotices EXCEPT ![p] = r.notices]
    /\ pending' = [pending EXCEPT ![p] = RemoveAt(@, i)]
    /\ posted' = NoPosts /\ prompts' = NoPrompts
    /\ last' = OpOf("saveDone", p, i)
    /\ UNCHANGED <<settingsVars, vault, view, file, now, msgs, creates>>

\* vault.read(file) takes effect: the content is the file's at this moment.
ReadLand(p, i) ==
    /\ Is(p, i, "init", "reading")
    /\ vault[Handler(p, i).path] # Absent
    /\ pending' = [pending EXCEPT ![p][i].stage = "read",
                                  ![p][i].xml = vault[Handler(p, i).path]]
    /\ last' = OpOf("readLand", p, i)
    /\ Quiet
    /\ UNCHANGED <<settingsVars, vault, view, file, hasUnsavedChanges,
                   lastSaveTime, now, msgs, creates>>

\* vault.read rejects: loadDiagram's catch shows its notice.
ReadFail(p, i) ==
    /\ Is(p, i, "init", "reading")
    /\ pending' = [pending EXCEPT ![p] = RemoveAt(@, i)]
    /\ notices' = [NoNotices EXCEPT ![p] = <<"Error loading diagram">>]
    /\ posted' = NoPosts /\ prompts' = NoPrompts
    /\ last' = OpOf("readFail", p, i)
    /\ UNCHANGED <<settingsVars, vault, view, file, hasUnsavedChanges,
                   lastSaveTime, now, msgs, creates>>

\* Mutant: the content is relayed without the emptiness test.
LoadReplyNoBlank(p, content) == PostMessage(p, LoadCommand(content))

\* loadDiagram() after the read: `if (content)` load, else blank
LoadReply(p, content) ==
    IF content # "" THEN PostMessage(p, LoadCommand(content))
    ELSE PostMessage(p, BlankCommand)

\* The init handler resumes after vault.read resolved.
InitResume(p, i) ==
    /\ Is(p, i, "init", "read")
    /\ posted' = [NoPosts EXCEPT ![p] = LoadReply(p, Handler(p, i).xml)]
    /\ pending' = [pending EXCEPT ![p] = RemoveAt(@, i)]
    /\ notices' = NoNotices /\ prompts' = NoPrompts
    /\ last' = OpOf("initDone", p, i)
    /\ UNCHANGED <<settingsVars, vault, view, file, hasUnsavedChanges,
                   lastSaveTime, now, msgs, creates>>

(***************************************************************************)
(* The environment: the clock and the vault.                               *)
(***************************************************************************)
\* The clock advances by a millisecond or by the length of the throttle window.
TickSteps == {1, ThrottleMs}
TicksAt(t) == ((t - StartTime) \div ThrottleMs) + ((t - StartTime) % ThrottleMs)

Tick(d) ==
    /\ TicksAt(now + d) <= MaxTicks
    /\ now' = now + d
    /\ last' = Op("tick", "-", "-", NoData)
    /\ Quiet
    /\ UNCHANGED <<settingsVars, vault, view, paneVars, msgs, creates>>

\* The user deletes a file of the vault.
VaultDelete(path) ==
    /\ vault[path] # Absent
    /\ vault' = [vault EXCEPT ![path] = Absent]
    /\ pending' = Touch(path)
    /\ last' = Op("delete", "-", "-", NoData)
    /\ Quiet
    /\ UNCHANGED <<settingsVars, view, file, hasUnsavedChanges, lastSaveTime,
                   now, msgs, creates>>

(***************************************************************************)
(* DrawioPlugin: createNewDiagram.                                         *)
(***************************************************************************)
EMPTY_DIAGRAM == "<mxfile><diagram id=default-diagram name=Page-1/></mxfile>"

NoArg == "<undefined>"     \* an argument not given, a property that is not there
\* a string in a condition: neither undefined nor empty
Truthy(str) == str # NoArg /\ str # ""

TargetFolders == {NoArg, "T"}      \* targetFolderPath: the folder of the file menu
ParentFolders == {NoArg, "N"}      \* activeView.file.parent.path of a markdown view
ExplorerFolders == {NoArg, "E"}    \* fileExplorer.view.openFolder.path
Faults == SUBSET {"createFolder", "create", "leaf"}   \* the calls that fail

\* Mutant: the file explorer is asked before the active markdown view.
ResolveFolderExplorerFirst(target, parent, explorer) ==
    IF Truthy(target) THEN [source |-> "target", path |-> target]
    ELSE IF explorer # NoArg THEN [source |-> "explorer", path |-> explorer]
    ELSE IF parent # NoArg THEN [source |-> "markdown", path |-> parent]
    ELSE [source |-> "none", path |-> ""]

\* The folder chosen before the default folder is considered: targetFolderPath,
\* else the parent of the active markdown view's file, else the folder open in
\* the file explorer.
ResolveFolder(target, parent, explorer) ==
    IF Truthy(target) THEN [source |-> "target", path |-> target]
    ELSE IF parent # NoArg THEN [source |-> "markdown", path |-> parent]
    ELSE IF explorer # NoArg THEN [source |-> "explorer", path |-> explorer]
    ELSE [source |-> "none", path |-> ""]

\* Mutant: the configured path is returned although the folder was not created.
ensureDefaultFolderKeepsPath(v, faults) ==
    LET folderPath == settings.defaultFolder
    IN  IF ~Truthy(folderPath)
        THEN [path |-> "", vault |-> v, shown |-> <<>>, made |-> FALSE, failed |-> FALSE]
        ELSE IF Lookup(v, folderPath) # Absent
        THEN [path |-> folderPath, vault |-> v, shown |-> <<>>,
              made |-> FALSE, failed |-> FALSE]
        ELSE IF "createFolder" \in faults
        THEN [path |-> folderPath, vault |-> v,
              shown |-> <<"Error creating default folder">>,
              made |-> FALSE, failed |-> TRUE]
        ELSE [path |-> folderPath,
              vault |-> [q \in DOMAIN v \cup {folderPath} |->
                           IF q = folderPath THEN Folder ELSE v[q]],
              shown |-> <<"Created default diagrams folder: " \o folderPath>>,
              made |-> TRUE, failed |-> FALSE]

\* Mutant: the folder is created without looking whether it is there.
ensureDefaultFolderAlwaysCreates(v, faults) ==
    LET folderPath == settings.defaultFolder
    IN  IF ~Truthy(folderPath)
        THEN [path |-> "", vault |-> v, shown |-> <<>>, made |-> FALSE, failed |-> FALSE]
        ELSE IF "createFolder" \in faults
        THEN [path |-> "", vault |-> v, shown |-> <<"Error creating default folder">>,
              made |-> FALSE, failed |-> TRUE]
        ELSE [path |-> folderPath,
              vault |-> [q \in DOMAIN v \cup {folderPath} |->
                           IF q = folderPath THEN Folder ELSE v[q]],
              shown |-> <<"Created default diagrams folder: " \o folderPath>>,
              made |-> TRUE, failed |-> FALSE]

\* ensureDefaultFolderExists() on the vault v: the path it returns, the vault
\* it leaves, the notices it shows.
ensureDefaultFolderExists(v, faults) ==
    LET folderPath == settings.defaultFolder
    IN  IF ~Truthy(folderPath)
        THEN [path |-> "", vault |-> v, shown |-> <<>>, made |-> FALSE, failed |-> FALSE]
        ELSE IF Lookup(v, folderPath) # Absent
        THEN [path |-> folderPath, vault |-> v, shown |-> <<>>,
              made |-> FALSE, failed |-> FALSE]
        ELSE IF "createFolder" \in faults
        THEN [path |-> "", vault |-> v, shown |-> <<"Error creating default folder">>,
              made |-> FALSE, failed |-> TRUE]
        ELSE [path |-> folderPath,
              vault |-> [q \in DOMAIN v \cup {folderPath} |->
                           IF q = folderPath THEN Folder ELSE v[q]],
              shown |-> <<"Created default diagrams folder: " \o folderPath>>,
              made |-> TRUE, failed |-> FALSE]

\* Mutant: the name carries no timestamp.
FileNameNoStamp(folderPath, t) ==
    (IF Truthy(folderPath) THEN folderPath \o "/" ELSE "") \o "diagram.drawio"

\* `${folderPath ? folderPath + '/' : ''}diagram ${Date.now()}.drawio`
FileName(folderPath, t) ==
    (IF Truthy(folderPath) THEN folderPath \o "/" ELSE "")
        \o "diagram " \o ToString(t) \o ".drawio"

\* vault.create(path, data) rejects when something is at the path already
CreateRejects(v, path, faults) == Lookup(v, path) # Absent \/ "create" \in faults

\* Mutant: the success notice is shown however the call ends.
CreateNoticesAlwaysCreated(before, done) == before \o <<"New diagram created">>

\* The notices of a createNewDiagram() call: those shown before its last
\* statement, then 'New diagram created' when it ran to the end, and the notice
\* of its catch otherwise.
CreateNotices(before, done) ==
    before \o (IF done THEN <<"New diagram created">>
               ELSE <<"Error creating new diagram">>)

\* getLeaf(true): a leaf that holds no view yet
NewLeaf == CHOOSE p \in Panes : view[p] = "none" /\ (p = "p1" \/ view["p1"] # "none")

\* createNewDiagram(targetFolderPath), called while the active markdown view's
\* file has the given parent and the file explorer the given open folder; leaf
\* is the leaf getLeaf(true) makes.
CreateNewDiagram(target, parent, explorer, faults, leaf) ==
    /\ settings # Null
    /\ creates < MaxCreates
    /\ \E p \in Panes : view[p] = "none"
    /\ leaf = NewLeaf
    /\ creates' = creates + 1
    /\ LET first == ResolveFolder(target, parent, explorer)
           useDefault == ~Truthy(target) /\ ~Truthy(first.path)
           dflt == IF useDefault THEN ensureDefaultFolderExists(vault, faults)
                   ELSE [path |-> first.path, vault |-> vault, shown |-> <<>>,
                         made |-> FALSE, failed |-> FALSE]
           folderPath == dflt.path
           fileName == FileName(folderPath, now)
           fileMade == ~CreateRejects(dflt.vault, fileName, faults)
           v2 == IF fileMade
                 THEN [q \in DOMAIN dflt.vault \cup {fileName} |->
                         IF q = fileName THEN EMPTY_DIAGRAM ELSE dflt.vault[q]]
                 ELSE dflt.vault
           leafMade == fileMade /\ "leaf" \notin faults
       IN  /\ vault' = v2
           /\ view' = IF leafMade THEN [view EXCEPT ![leaf] = "open"] ELSE view
           /\ file' = IF leafMade
                      THEN [file EXCEPT ![leaf] = setStateIn(v2, leaf, fileName)]
                      ELSE file
           /\ last' = [Op("create", IF leafMade THEN leaf ELSE "-", "-", NoData) EXCEPT
                         !.shown = CreateNotices(dflt.shown, leafMade),
                         !.call = [target |-> target, parent |-> parent,
                                   explorer |-> explorer,
                                   source |-> IF useDefault THEN "default" ELSE first.source,
                                   folderPath |-> folderPath, fileName |-> fileName,
                                   folderMade |-> dflt.made, folderFailed |-> dflt.failed,
                                   made |-> fileMade, opened |-> leafMade,
                                   active |-> IF leafMade THEN leaf ELSE "-"]]
    /\ Quiet
    /\ UNCHANGED <<settingsVars, hasUnsavedChanges, lastSaveTime, pending, now, msgs>>

(***************************************************************************)
(* Specifications.                                                         *)
(***************************************************************************)
InitPanes ==
    /\ view = [p \in Panes |-> "none"]
    /\ file = [p \in Panes |-> NoFile]
    /\ hasUnsavedChanges = [p \in Panes |-> FALSE]
    /\ lastSaveTime = [p \in Panes |-> 0]
    /\ pending = [p \in Panes |-> <<>>]
    /\ now = StartTime
    /\ msgs = 0
    /\ creates = 0
    /\ last = Op("start", "-", "-", NoData)
    /\ posted = NoPosts /\ notices = NoNotices /\ prompts = NoPrompts

\* The plugin has loaded with nothing stored; the vault holds two diagrams.
Init ==
    /\ settings = DEFAULT_SETTINGS
    /\ stored = [exists |-> FALSE, text |-> <<>>]
    /\ systemDark = FALSE
    /\ saving = 0
    /\ vault = [path \in Paths |-> IF path = "a.drawio" THEN Template ELSE ""]
    /\ InitPanes

\* One pane: p1 is the only pane ever opened.
Solo == {"p1"}

Next ==
    \/ \E p \in Solo : OpenPane(p, HomePath(p))
    \/ \E p \in Solo : ClosePane(p)
    \/ \E origin \in Origins, data \in Messages :
           \E answers \in Answers(data) : Dispatch(origin, data, answers)
    \/ \E p \in Solo, i \in 1..MaxPending : WriteLand(p, i)
    \/ \E p \in Solo, i \in 1..MaxPending : WriteFail(p, i)
    \/ \E p \in Solo, i \in 1..MaxPending : SaveResume(p, i)
    \/ \E p \in Solo, i \in 1..MaxPending : ReadLand(p, i)
    \/ \E p \in Solo, i \in 1..MaxPending : ReadFail(p, i)
    \/ \E p \in Solo, i \in 1..MaxPending : InitResume(p, i)
    \/ \E d \in TickSteps : Tick(d)
    \/ \E p \in Solo : VaultDelete(HomePath(p))
    \/ BeforeUnload

Spec == Init /\ [][Next]_vars

\* The settings file as it may be found at start-up: absent, empty, partial or
\* complete.
StoredTexts ==
    {<<>>}
      \cup {<< <<"theme", t>> >> : t \in Themes}
      \cup {<< <<"defaultFolder", f>> >> : f \in StoredFolders}
      \cup {<< <<"theme", t>>, <<"defaultFolder", f>> >> :
               t \in Themes, f \in StoredFolders}
StoredFiles ==
    {[exists |-> FALSE, text |-> <<>>]}
      \cup {[exists |-> TRUE, text |-> t] : t \in StoredTexts}

\* Before onload(): nothing is loaded yet.
InitSettings ==
    /\ settings = Null
    /\ stored \in StoredFiles
    /\ systemDark \in BOOLEAN
    /\ saving = 0
    /\ vault = [path \in Paths |-> IF path = "a.drawio" THEN Template ELSE ""]
    /\ InitPanes

NextSettings ==
    \/ LoadSettings
    \/ \E value \in Themes : ChangeTheme(value)
    \/ \E value \in Folders : ChangeFolder(value)
    \/ SaveSettingsResume
    \/ SystemThemeChange
    \/ \E p \in Panes : OpenPane(p, HomePath(p))
    \/ \E p \in Panes : ClosePane(p)

SpecSettings == InitSettings /\ [][NextSettings]_vars

\* The plugin has loaded; the settings name any default folder, which may or may
\* not exist yet; the folders a diagram can be asked for exist.
InitCreate ==
    /\ settings \in {[theme |-> "system", defaultFolder |-> f] : f \in Folders}
    /\ stored = [exists |-> TRUE, text |-> JSONstringify(settings)]
    /\ systemDark = FALSE
    /\ saving = 0
    /\ \E present \in SUBSET {"Diagrams"} :
         vault = [q \in Paths \cup {"T", "N", "E"} \cup present |->
                    IF q = "a.drawio" THEN Template
                    ELSE IF q = "b.drawio" THEN "" ELSE Folder]
    /\ InitPanes

NextCreate ==
    \/ \E target \in TargetFolders, parent \in ParentFolders,
          explorer \in ExplorerFolders, faults \in Faults, leaf \in Panes :
           CreateNewDiagram(target, parent, explorer, faults, leaf)
    \/ Tick(1)

SpecCreate == InitCreate /\ [][NextCreate]_vars

\* Diagrams are created and the editors of their panes start up: the first
\* message of an editor is init.
InitMessage == [event |-> "init", xml |-> ""]

NextNew ==
    \/ \E target \in TargetFolders, parent \in ParentFolders,
          explorer \in ExplorerFolders, faults \in Faults, leaf \in Panes :
           CreateNewDiagram(target, parent, explorer, faults, leaf)
    \/ \E source \in Panes : EditorPosts(source, InitMessage, NoAnswers)
    \/ \E p \in Panes, i \in 1..MaxPending : ReadLand(p, i)
    \/ \E p \in Panes, i \in 1..MaxPending : ReadFail(p, i)
    \/ \E p \in Panes, i \in 1..MaxPending : InitResume(p, i)

SpecNew == InitCreate /\ [][NextNew]_vars

\* Two panes are open, each on its own diagram.
InitTwo ==
    /\ settings = DEFAULT_SETTINGS
    /\ stored = [exists |-> FALSE, text |-> <<>>]
    /\ systemDark = FALSE
    /\ saving = 0
    /\ vault = [path \in Paths |-> IF path = "a.drawio" THEN Template ELSE ""]
    /\ view = [p \in Panes |-> "open"]
    /\ file = [p \in Panes |-> HomePath(p)]
    /\ hasUnsavedChanges = [p \in Panes |-> FALSE]
    /\ lastSaveTime = [p \in Panes |-> 0]
    /\ pending = [p \in Panes |-> <<>>]
    /\ now = StartTime
    /\ msgs = 0
    /\ creates = 0
    /\ last = Op("open", "p2", "-", NoData)
    /\ posted = NoPosts /\ notices = NoNotices /\ prompts = NoPrompts

NextTwo ==
    \/ \E source \in Panes, data \in Messages :
           \E answers \in Answers(data) : EditorPosts(source, data, answers)
    \/ \E p \in Panes, i \in 1..MaxPending : WriteLand(p, i)
    \/ \E p \in Panes, i \in 1..MaxPending : SaveResume(p, i)
    \/ \E p \in Panes, i \in 1..MaxPending : ReadLand(p, i)
    \/ \E p \in Panes, i \in 1..MaxPending : InitResume(p, i)

SpecTwo == InitTwo /\ [][NextTwo]_vars


(***************************************************************************)
(* Properties of the message relay (specification Spec).                   *)
(***************************************************************************)
TrustedMessage(op, event) ==
    op.op = "message" /\ op.origin = EmbedOrigin /\ op.data.event = event

\* C1: a message event whose origin is not exactly the embedded editor's, with
\* any payload and in any pane state, changes no file and starts no vault
\* operation, posts no command, shows no notice or prompt, and leaves every
\* pane's bound file, dirty flag and last-save timestamp as they were.
C1_UntrustedOriginIgnored ==
    [][(last'.op = "message" /\ last'.origin # EmbedOrigin) =>
         /\ vault' = vault
         /\ pending' = pending
         /\ posted' = NoPosts
         /\ notices' = NoNotices
         /\ prompts' = NoPrompts
         /\ file' = file
         /\ hasUnsavedChanges' = hasUnsavedChanges
         /\ lastSaveTime' = lastSaveTime]_vars

\* An untrusted, well-formed save message has just reached an open dirty pane
\* that is bound to an existing file.
C1_Witness ==
    /\ last.op = "message" /\ last.origin # EmbedOrigin
    /\ last.data = [event |-> "save", xml |-> "c1"]
    /\ \E p \in Panes :
         view[p] = "open" /\ IsTFile(file[p]) /\ hasUnsavedChanges[p]

\* C2 (as claimed): once a pane has handled a trusted save message carrying C
\* to the end without an error, its bound file holds exactly C and its dirty
\* flag is false. The handler ends either in the continuation after the write,
\* or within the dispatch when saveDiagram() found nothing to write to.
C2_SaveWritesVerbatim ==
    \A p \in Panes :
      /\ (last.op = "saveDone" /\ last.pane = p /\ file[p] # NoFile) =>
            vault[file[p]] = last.data.xml /\ ~hasUnsavedChanges[p]
      /\ (TrustedMessage(last, "save") /\ view[p] = "open" /\ file[p] # NoFile
            /\ ~IsTFile(file[p])) =>
            vault[file[p]] = last.data.xml /\ ~hasUnsavedChanges[p]

\* C3 (as claimed): an init dispatched right after the pane handled a save of C
\* is answered by a load command carrying exactly C, for every C and whether or
\* not the save's write had completed.
C3_SaveThenInitLoadsAlways ==
    \A p \in Panes :
      (last.op = "initDone" /\ last.pane = p /\ view[p] = "open"
         /\ last.after # NoSave) =>
         posted[p] = <<LoadCommand(last.after)>>

\* C3 (amended): an init dispatched right after the pane handled a save of C,
\* when that save's write had landed and nothing else writes or deletes the
\* file before the init's read takes place, is answered by a load command
\* carrying exactly C when C is not empty, and by a blank command when it is.
C3_SaveThenInit ==
    \A p \in Panes :
      (last.op = "initDone" /\ last.pane = p /\ view[p] = "open"
         /\ last.after # NoSave /\ last.clean) =>
         posted[p] = IF last.after # "" THEN <<LoadCommand(last.after)>>
                     ELSE <<BlankCommand>>

\* The init that followed a landed save of "c1" has been answered with it.
C3_Witness ==
    /\ last.op = "initDone" /\ last.after = "c1" /\ last.clean
    /\ \E p \in Panes :
         last.pane = p /\ view[p] = "open" /\ posted[p] = <<LoadCommand("c1")>>

\* C4 (as claimed): every trusted init handled by an open pane relays exactly
\* one command: load with the content read when there is some, else blank,
\* also when the pane has no bound file or the bound file no longer exists.
C4_InitRelaysOneCommand ==
    \A p \in Panes :
      /\ (last.op = "initDone" /\ last.pane = p /\ view[p] = "open") =>
            posted[p] = IF last.data.xml # "" THEN <<LoadCommand(last.data.xml)>>
                        ELSE <<BlankCommand>>
      /\ (TrustedMessage(last, "init") /\ view[p] = "open" /\ ~IsTFile(file[p])) =>
            posted[p] = <<BlankCommand>>

\* C5: a trusted exit message handled by an open pane shows no prompt and posts
\* nothing when the pane is not dirty; when it is dirty it shows exactly one
\* prompt and posts the save command exactly when the user confirms. In every
\* case the files, the pane's dirty flag, its last-save timestamp and its
\* suspended handlers are unchanged and no notice is shown.
C5_ExitPrompts ==
    [][TrustedMessage(last', "exit") =>
         \A p \in Panes : view[p] = "open" =>
           /\ vault' = vault
           /\ hasUnsavedChanges'[p] = hasUnsavedChanges[p]
           /\ lastSaveTime'[p] = lastSaveTime[p]
           /\ pending'[p] = pending[p]
           /\ notices'[p] = <<>>
           /\ IF hasUnsavedChanges[p]
              THEN /\ prompts'[p] = 1
                   /\ posted'[p] = IF last'.confirmed[p] THEN <<SaveCommand>> ELSE <<>>
              ELSE /\ prompts'[p] = 0
                   /\ posted'[p] = <<>>]_vars

\* A dirty open pane has handled exit, the user was asked once and declined.
C5_Witness ==
    /\ TrustedMessage(last, "exit")
    /\ \E p \in Panes :
         /\ view[p] = "open" /\ hasUnsavedChanges[p]
         /\ prompts[p] = 1 /\ ~last.confirmed[p] /\ posted[p] = <<>>

\* C6 (as claimed): every trusted save message reaching an open pane with a
\* bound file has its content written to that file, whether or not its notice
\* is shown: the write of exactly that content is under way when the handler
\* yields, and 'Diagram saved' is shown only by the continuation of a write.
C6_EverySaveWritten ==
    \A p \in Panes :
      (TrustedMessage(last, "save") /\ view[p] = "open" /\ file[p] # NoFile) =>
         /\ pending[p] # <<>>
         /\ pending[p][Len(pending[p])].kind = "save"
         /\ pending[p][Len(pending[p])].stage = "writing"
         /\ pending[p][Len(pending[p])].xml = last.data.xml
         /\ notices[p] = <<>>

\* C7: a trusted modified message sets the dirty flag of every open pane and
\* does nothing else: no file changes, no vault operation starts, nothing is
\* posted, shown or asked, and no last-save timestamp or bound file changes.
C7_ModifiedOnlySetsDirty ==
    [][TrustedMessage(last', "modified") =>
         /\ \A p \in Panes :
              hasUnsavedChanges'[p] = (view[p] # "none" \/ hasUnsavedChanges[p])
         /\ vault' = vault
         /\ pending' = pending
         /\ posted' = NoPosts
         /\ notices' = NoNotices
         /\ prompts' = NoPrompts
         /\ file' = file
         /\ lastSaveTime' = lastSaveTime]_vars

\* A pane that has saved before (its timestamp is set) is dirty again after a
\* modified message.
C7_Witness ==
    /\ TrustedMessage(last, "modified")
    /\ \E p \in Panes :
         view[p] = "open" /\ hasUnsavedChanges[p] /\ lastSaveTime[p] > 0

(***************************************************************************)
(* Properties of the settings store (specification SpecSettings).          *)
(***************************************************************************)
\* The stored record names field k / the value it gives k.
HasField(k) ==
    stored.exists /\ \E i \in 1..Len(stored.text) : stored.text[i][1] = k
FieldValue(k) ==
    stored.text[CHOOSE i \in 1..Len(stored.text) : stored.text[i][1] = k][2]

\* C8: loadSettings right after a settings change was saved yields the same
\* in-memory theme and defaultFolder, for every theme and folder text.
C8_SettingsRoundTrip ==
    [][(last.op \in {"changeTheme", "changeFolder", "settingsSaved"}
          /\ last'.op = "loadSettings") =>
         /\ DOMAIN settings' = {"theme", "defaultFolder"}
         /\ settings'.theme = settings.theme
         /\ settings'.defaultFolder = settings.defaultFolder]_vars

\* Settings reloaded with a folder that only the settings field can have set.
C8_Witness ==
    /\ last.op = "loadSettings"
    /\ settings.theme = "dark" /\ settings.defaultFolder = "X"

\* C9: after loadSettings each of theme and defaultFolder holds the stored value
\* when the stored record has the field and the hard-coded default otherwise.
C9_LoadMergesDefaults ==
    last.op = "loadSettings" =>
      \A k \in {"theme", "defaultFolder"} :
        /\ k \in DOMAIN settings
        /\ settings[k] = IF HasField(k) THEN FieldValue(k) ELSE DEFAULT_SETTINGS[k]

\* Loaded from a partial record: the theme is the stored one, the folder the
\* default.
C9_Witness ==
    /\ last.op = "loadSettings"
    /\ HasField("theme") /\ ~HasField("defaultFolder")
    /\ settings.theme = "dark" /\ settings.defaultFolder = "Diagrams"

C11_BoundFileExists ==
    \A p \in Panes : file[p] # NoFile => vault[file[p]] # Absent


\* The theme sent to the editor for the settings and the OS colour scheme as
\* they stand.
ResolvedTheme ==
    IF settings.theme \in {"light", "dark"} THEN settings.theme
    ELSE IF systemDark THEN "dark" ELSE "light"

\* C12: saveSettings first persists the settings record, which equals the
\* in-memory settings of the call, and sends nothing yet; once the record is
\* persisted it sends exactly one theme command to every open diagram pane and
\* none to any other pane, and leaves the persisted record as it is.
C12_PersistThenNotify ==
    [][/\ last'.op \in {"changeTheme", "changeFolder"} =>
            /\ stored'.exists
            /\ JSONparse(stored'.text) = settings'
            /\ posted' = NoPosts
       /\ last'.op = "settingsSaved" =>
            /\ saving > 0
            /\ stored' = stored /\ stored.exists
            /\ \A p \in Panes :
                 posted'[p] = IF view[p] = "open"
                              THEN <<[action |-> "theme", value |-> ResolvedTheme']>>
                              ELSE <<>>]_vars

\* A save completed with one pane open and the other closed: the open pane was
\* sent the theme, the closed one nothing.
C12_Witness ==
    /\ last.op = "settingsSaved"
    /\ view["p1"] = "open" /\ view["p2"] = "closed"
    /\ Len(posted["p1"]) = 1 /\ posted["p2"] = <<>>
    /\ settings.theme = "dark"


\* C13: every theme command posted, after a settings change or after a change
\* of the OS colour scheme, carries dark or light, the theme resolved from the
\* settings and the OS colour scheme of that moment; a change of the OS colour
\* scheme sends one to every open diagram pane.
C13_ThemeCommandsResolved ==
    /\ \A p \in Panes : \A i \in 1..Len(posted[p]) :
         posted[p][i].action = "theme" =>
           /\ posted[p][i].value \in {"dark", "light"}
           /\ posted[p][i].value = ResolvedTheme
    /\ last.op = "systemTheme" =>
         \A p \in Panes :
           view[p] = "open" => posted[p] = <<[action |-> "theme", value |-> ResolvedTheme]>>

\* The OS turned dark while the theme setting follows the system and both panes
\* are open: both were sent dark.
C13_Witness ==
    /\ last.op = "systemTheme"
    /\ settings.theme = "system" /\ systemDark
    /\ \A p \in Panes : view[p] = "open" /\ posted[p] = <<[action |-> "theme", value |-> "dark"]>>


\* C20: the theme selector sets settings.theme to the chosen value and leaves
\* defaultFolder as it was; the folder field sets settings.defaultFolder to the
\* text entered, whatever it is, and leaves theme as it was; either change is
\* persisted, and the persisted record then equals the in-memory settings.
C20_ControlsWriteThrough ==
    [][/\ last'.op = "changeTheme" =>
            /\ settings'.theme = last'.data.value
            /\ settings'.defaultFolder = settings.defaultFolder
       /\ last'.op = "changeFolder" =>
            /\ settings'.defaultFolder = last'.data.value
            /\ settings'.theme = settings.theme
       /\ last'.op \in {"changeTheme", "changeFolder"} =>
            /\ stored'.exists
            /\ \A k \in {"theme", "defaultFolder"} :
                 HasField(k)' /\ FieldValue(k)' = settings'[k]
            /\ KeysOf(stored'.text) = DOMAIN settings']_vars

\* The folder field was set to a folder that does not exist, while the theme was
\* dark: both are in the persisted record.
C20_Witness ==
    /\ last.op = "changeFolder" /\ last.data.value = "X"
    /\ settings = [theme |-> "dark", defaultFolder |-> "X"]
    /\ stored.exists /\ FieldValue("theme") = "dark" /\ FieldValue("defaultFolder") = "X"


ErrorNotices ==
    {"Error handling Draw.io operation", "Error saving diagram", "Error loading diagram"}

\* C17 as stated: a trusted message whose payload does not parse changes no
\* file, posts no command, shows no notice, and leaves the dirty flags and the
\* last-save timestamps as they were.
C17_MalformedSilent ==
    [][TrustedMessage(last', Malformed) =>
         /\ vault' = vault /\ pending' = pending
         /\ posted' = NoPosts
         /\ notices' = NoNotices
         /\ hasUnsavedChanges' = hasUnsavedChanges
         /\ lastSaveTime' = lastSaveTime]_vars

\* C17: a trusted message whose payload does not parse changes no file and
\* starts no vault operation, posts no command, asks nothing, and leaves every
\* bound file, dirty flag and last-save timestamp as they were; every pane whose
\* listener is registered shows the one notice 'Error handling Draw.io
\* operation', and no handler is left suspended by it.
C17_MalformedContained ==
    [][TrustedMessage(last', Malformed) =>
         /\ vault' = vault /\ pending' = pending
         /\ posted' = NoPosts /\ prompts' = NoPrompts
         /\ file' = file
         /\ hasUnsavedChanges' = hasUnsavedChanges
         /\ lastSaveTime' = lastSaveTime
         /\ \A p \in Panes :
              notices'[p] = IF Listening(p)
                            THEN <<"Error handling Draw.io operation">>
                            ELSE <<>>]_vars

\* A trusted unparseable payload has just reached an open dirty pane, which
\* showed the error notice.
C17_Witness ==
    /\ TrustedMessage(last, Malformed)
    /\ view["p1"] = "open" /\ hasUnsavedChanges["p1"] /\ IsTFile(file["p1"])
    /\ notices["p1"] = <<"Error handling Draw.io operation">>

\* C18: a trusted save message to a pane bound to an existing file changes
\* neither the dirty flag nor the last-save timestamp while its write is
\* awaited; when the write fails the handler ends there, the pane shows error
\* notices only, at least one and never 'Diagram saved', and the dirty flag and
\* the last-save timestamp stay as they were.
C18_FailedSaveKeepsState ==
    [][/\ TrustedMessage(last', "save") =>
            \A p \in Panes :
              (Listening(p) /\ IsTFile(file[p])) =>
                 /\ hasUnsavedChanges'[p] = hasUnsavedChanges[p]
                 /\ lastSaveTime'[p] = lastSaveTime[p]
                 /\ notices'[p] = <<>>
       /\ last'.op = "writeFail" =>
            /\ Len(notices'[last'.pane]) >= 1
            /\ \A i \in 1..Len(notices'[last'.pane]) :
                 notices'[last'.pane][i] \in ErrorNotices
            /\ Len(pending'[last'.pane]) = Len(pending[last'.pane]) - 1
            /\ hasUnsavedChanges' = hasUnsavedChanges
            /\ lastSaveTime' = lastSaveTime
            /\ vault' = vault /\ posted' = NoPosts]_vars

\* The write of a save sent to a dirty pane has just failed: the pane is still
\* dirty and has never shown a save notice.
C18_Witness ==
    /\ last.op = "writeFail" /\ last.pane = "p1"
    /\ hasUnsavedChanges["p1"] /\ lastSaveTime["p1"] = 0
    /\ notices["p1"][1] = "Error saving diagram"


\* C19: closing the window is intercepted exactly when some diagram pane that is
\* open at that moment has its dirty flag set; with no open dirty pane, dirty
\* panes that were closed before included, it is not intercepted.
C19_GuardOnlyOpenDirty ==
    last.op = "beforeunload" =>
      (last.prevented <=> \E p \in Panes : view[p] = "open" /\ hasUnsavedChanges[p])


(***************************************************************************)
(* Properties of diagram creation (specification SpecCreate).              *)
(***************************************************************************)
Shows(msg) == \E i \in 1..Len(last.shown) : last.shown[i] = msg

\* The path of a diagram created at time t in the folder, the vault root when
\* the folder is the empty string.
DiagramIn(folder, t) ==
    IF folder = "" THEN "diagram " \o ToString(t) \o ".drawio"
    ELSE folder \o "/diagram " \o ToString(t) \o ".drawio"

\* C14: createNewDiagram places the file in the explicit target folder when one
\* is given; else in the parent folder of the active markdown document when
\* there is one; else in the folder open in the file explorer when there is one;
\* else in the configured default folder (the vault root when that folder is
\* empty or could not be created). A source is used only when every source
\* before it is absent.
C14_FolderPriority ==
    last.op = "create" =>
      LET c == last.call
          expected ==
            IF c.target # NoArg THEN [source |-> "target", path |-> c.target]
            ELSE IF c.parent # NoArg THEN [source |-> "markdown", path |-> c.parent]
            ELSE IF c.explorer # NoArg THEN [source |-> "explorer", path |-> c.explorer]
            ELSE [source |-> "default",
                  path |-> IF c.folderFailed THEN "" ELSE settings.defaultFolder]
      IN  /\ c.source = expected.source
          /\ c.folderPath = expected.path
          /\ c.fileName = DiagramIn(expected.path, now)
          /\ c.made => vault[c.fileName] = EMPTY_DIAGRAM
          /\ c.source = "default" =>
               (c.target = NoArg /\ c.parent = NoArg /\ c.explorer = NoArg)
          /\ c.source = "explorer" => (c.target = NoArg /\ c.parent = NoArg)
          /\ c.source = "markdown" => c.target = NoArg

\* With no target and no active markdown document, the diagram was created in
\* the folder open in the file explorer although a default folder is configured.
C14_Witness ==
    /\ last.op = "create" /\ last.call.made /\ last.call.opened
    /\ last.call.target = NoArg /\ last.call.parent = NoArg /\ last.call.explorer = "E"
    /\ settings.defaultFolder = "Diagrams"
    /\ last.call.fileName = "E/diagram 3000.drawio"
    /\ vault["E/diagram 3000.drawio"] = EMPTY_DIAGRAM

\* C15: with no target folder, no active markdown document, no folder open in
\* the file explorer and an empty default folder, a call that creates its file
\* creates exactly one, at the vault root, named after the current timestamp
\* with the .drawio extension and holding exactly EMPTY_DIAGRAM; no folder is
\* created and nothing else in the vault changes, whether the file is created
\* or not.
C15_RootFallback ==
    [][(/\ last'.op = "create"
        /\ last'.call.target = NoArg /\ last'.call.parent = NoArg
        /\ last'.call.explorer = NoArg /\ settings.defaultFolder = "") =>
         LET name == "diagram " \o ToString(now) \o ".drawio"
         IN  /\ ~last'.call.folderMade
             /\ \A q \in DOMAIN vault : q \in DOMAIN vault' /\ vault'[q] = vault[q]
             /\ \A q \in DOMAIN vault' : vault'[q] # Folder \/ q \in DOMAIN vault
             /\ IF last'.call.made
                THEN /\ name \notin DOMAIN vault
                     /\ DOMAIN vault' = DOMAIN vault \cup {name}
                     /\ vault'[name] = EMPTY_DIAGRAM
                ELSE vault' = vault]_vars

\* The diagram was created at the vault root one millisecond after the start.
C15_Witness ==
    /\ last.op = "create" /\ last.call.made /\ last.call.opened
    /\ last.call.target = NoArg /\ last.call.parent = NoArg /\ last.call.explorer = NoArg
    /\ settings.defaultFolder = ""
    /\ now = StartTime + 1
    /\ Lookup(vault, "diagram " \o ToString(StartTime + 1) \o ".drawio") = EMPTY_DIAGRAM
    /\ file[last.pane] = last.call.fileName


\* A createNewDiagram() call can be made: a leaf can be had and the budget of
\* calls is not used up.
CanCreate == creates < MaxCreates /\ \E p \in Panes : view[p] = "none"

\* C16 as stated: when folder creation, file creation or pane creation fails in
\* a createNewDiagram call, an error notice is shown and 'New diagram created'
\* is not.
C16_AnyFailureNoSuccessNotice ==
    (last.op = "create"
       /\ (last.call.folderFailed \/ ~last.call.made \/ ~last.call.opened)) =>
      /\ Shows("Error creating new diagram") \/ Shows("Error creating default folder")
      /\ ~Shows("New diagram created")

\* C16: a createNewDiagram call always ends with a notice and leaves the plugin
\* able to take the next call. When file creation or pane creation fails it
\* shows 'Error creating new diagram', not 'New diagram created', and binds no
\* pane. When creation of the default folder fails it shows 'Error creating
\* default folder' and goes on at the vault root, where it ends with 'New
\* diagram created' if file and pane are then created and with 'Error creating
\* new diagram' if not.
C16_FailuresReported ==
    last.op = "create" =>
      /\ (~last.call.made \/ ~last.call.opened) =>
           /\ Shows("Error creating new diagram")
           /\ ~Shows("New diagram created")
           /\ last.pane = "-"
      /\ last.call.folderFailed =>
           /\ Shows("Error creating default folder")
           /\ last.call.folderPath = ""
           /\ last.call.fileName = DiagramIn("", now)
      /\ (last.call.made /\ last.call.opened) =>
           /\ Shows("New diagram created")
           /\ ~Shows("Error creating new diagram")
           /\ view[last.pane] = "open" /\ file[last.pane] = last.call.fileName
      /\ Shows("New diagram created") \/ Shows("Error creating new diagram")
      /\ CanCreate =>
           ENABLED (\E target \in TargetFolders, parent \in ParentFolders,
                       explorer \in ExplorerFolders, faults \in Faults, leaf \in Panes :
                      CreateNewDiagram(target, parent, explorer, faults, leaf))

\* The default folder could not be created and the diagram was created at the
\* vault root all the same: both notices were shown.
C16_Witness ==
    /\ last.op = "create" /\ last.call.folderFailed
    /\ last.call.made /\ last.call.opened
    /\ last.shown = <<"Error creating default folder", "New diagram created">>
    /\ settings.defaultFolder = "X" /\ Lookup(vault, "X") = Absent
    /\ CanCreate

\* The file was created and the pane could not be: the call ended with the error
\* notice and the plugin can be asked again.
C16_WitnessPaneFailed ==
    /\ last.op = "create" /\ last.call.made /\ ~last.call.opened
    /\ last.shown = <<"Error creating new diagram">>
    /\ CanCreate


C25_WitnessNotified ==
    /\ last.op = "saveDone" /\ last.pane = "p1"
    /\ last.currentTime = StartTime + 2001
    /\ lastSaveTime["p1"] = StartTime + 2001
    /\ notices["p1"] = <<"Diagram saved">>
    /\ msgs = 2 /\ vault["a.drawio"] # Absent


\* C24: a trusted modified message handled while a save handler of the same
\* pane is still awaiting its write is not lost: when that save handler then
\* finishes and no handler of the pane is left suspended, the dirty flag is
\* true.
C24_ModifiedSurvivesSave ==
    [][(/\ TrustedMessage(last, "modified")
        /\ last'.op = "saveDone"
        /\ Listening(last'.pane)
        /\ pending'[last'.pane] = <<>>) =>
         hasUnsavedChanges'[last'.pane]]_vars

\* C26: a pane shows 'Diagram saved' and clears its dirty flag only for a save
\* whose content was written to its bound file; a trusted save message reaching
\* a pane that has no bound file, or whose bound path no longer resolves to a
\* file, shows no 'Diagram saved' and leaves the dirty flag as it was.
C26_SavedOnlyIfWritten ==
    [][TrustedMessage(last', "save") =>
         \A p \in Panes :
           (Listening(p) /\ ~IsTFile(file[p])) =>
              /\ notices'[p] = <<>>
              /\ hasUnsavedChanges'[p] = hasUnsavedChanges[p]]_vars

\* C28: once onClose has run for a pane, a later trusted save, init, modified or
\* exit message starts no file write for it, posts no command to it, shows
\* no notice or prompt for it and leaves its dirty flag as it was.
C28_ClosedPaneInert ==
    [][(\E e \in {"save", "init", "modified", "exit"} : TrustedMessage(last', e)) =>
         \A p \in Panes :
           view[p] = "closed" =>
              /\ \A i \in 1..Len(pending'[p]) :
                   pending'[p][i].kind = "save" => i <= Len(pending[p])
              /\ posted'[p] = <<>>
              /\ notices'[p] = <<>> /\ prompts'[p] = 0
              /\ hasUnsavedChanges'[p] = hasUnsavedChanges[p]]_vars


\* C27: when several trusted save messages reach one pane, possibly before the
\* writes of earlier ones have finished, the bound file holds the content of the
\* last of them once all handlers have completed. Stated for the runs in which
\* the handler of the last save is the last to complete and the file is still
\* there.
C27_LastSaveWins ==
    (/\ last.op = "saveDone" /\ last.latest
     /\ pending[last.pane] = <<>>
     /\ IsTFile(file[last.pane])) =>
       vault[file[last.pane]] = last.data.xml


(***************************************************************************)
(* Properties of two open panes (specification SpecTwo).                   *)
(***************************************************************************)
\* C23: with two panes open on different files, a save, modified or init
\* message posted by the editor of one pane starts no write and no read for the
\* other pane, leaves the other pane's dirty flag as it was and posts no command
\* to the other pane's editor.
C23_OtherPaneUntouched ==
    [][(/\ last'.op = "message" /\ last'.pane \in Panes
        /\ last'.data.event \in {"save", "modified", "init"}) =>
         \A p \in Panes \ {last'.pane} :
           (view[p] = "open" /\ file[p] # file[last'.pane]) =>
              /\ pending'[p] = pending[p]
              /\ hasUnsavedChanges'[p] = hasUnsavedChanges[p]
              /\ posted'[p] = <<>>]_vars


(***************************************************************************)
(* Further properties of diagram creation (specification SpecCreate).      *)
(***************************************************************************)
\* C22 (first part): the name createNewDiagram synthesizes is the name of no
\* file or folder that is in the vault when the call is made, so that two
\* calls for one folder, be it in the same millisecond, make two files.
C22_NamesUnique ==
    [][last'.op = "create" => Lookup(vault, last'.call.fileName) = Absent]_vars

\* C29: when the default folder cannot be created, 'Error creating default
\* folder' is shown, no folder is created and the call goes on with the empty
\* path: the file it asks for is at the vault root, and when that file and its
\* pane are created the call ends with 'New diagram created' and without
\* 'Error creating new diagram'.
C29_FolderFailureFallsToRoot ==
    [][(last'.op = "create" /\ last'.call.folderFailed) =>
         /\ last'.shown[1] = "Error creating default folder"
         /\ last'.call.folderPath = ""
         /\ last'.call.fileName = DiagramIn("", now)
         /\ Lookup(vault', settings.defaultFolder) = Absent
         /\ (last'.call.made /\ last'.call.opened) =>
              /\ last'.shown = <<"Error creating default folder", "New diagram created">>
              /\ Lookup(vault, DiagramIn("", now)) = Absent
              /\ vault'[DiagramIn("", now)] = EMPTY_DIAGRAM
              /\ file'[last'.pane] = DiagramIn("", now)
         /\ (Lookup(vault, DiagramIn("", now)) # Absent) => ~last'.call.made]_vars

\* Folder X could not be created; the diagram is at the vault root, in a new
\* pane, and both notices were shown.
C29_Witness ==
    /\ last.op = "create" /\ last.call.folderFailed /\ last.call.made /\ last.call.opened
    /\ settings.defaultFolder = "X"
    /\ Lookup(vault, "X") = Absent
    /\ Lookup(vault, DiagramIn("", StartTime)) = EMPTY_DIAGRAM
    /\ file[last.pane] = DiagramIn("", StartTime)
    /\ last.shown[2] = "New diagram created"

\* C30: a createNewDiagram call creates a folder only when it was given no
\* target folder, there was no active markdown document and no folder open in
\* the file explorer, the defaultFolder setting is not empty and nothing is at
\* that path; the folder it creates is the default folder, and it creates it
\* whenever this is the case and the creation does not fail. No call changes
\* or removes a folder or file that was there.
C30_FolderCreatedOnlyAsDefault ==
    [][last'.op = "create" =>
         LET made == {q \in DOMAIN vault' : vault'[q] = Folder /\ Lookup(vault, q) # Folder}
             called == /\ last'.call.target = NoArg /\ last'.call.parent = NoArg
                       /\ last'.call.explorer = NoArg
                       /\ settings.defaultFolder # ""
                       /\ Lookup(vault, settings.defaultFolder) = Absent
         IN  /\ made # {} => (called /\ made = {settings.defaultFolder})
             /\ called => (made = {settings.defaultFolder} \/ last'.call.folderFailed)
             /\ last'.call.folderMade <=> made # {}
             /\ \A q \in DOMAIN vault : q \in DOMAIN vault' /\ vault'[q] = vault[q]]_vars

\* The default folder Diagrams was missing and has been created for a diagram
\* asked for without any context.
C30_Witness ==
    /\ last.op = "create" /\ last.call.folderMade /\ last.call.made
    /\ last.call.target = NoArg /\ last.call.parent = NoArg /\ last.call.explorer = NoArg
    /\ settings.defaultFolder = "Diagrams"
    /\ vault["Diagrams"] = Folder
    /\ last.shown[1] = "Created default diagrams folder: Diagrams"
    /\ Lookup(vault, DiagramIn("Diagrams", now)) = EMPTY_DIAGRAM


(***************************************************************************)
(* Properties of a created diagram's pane (specification SpecNew).         *)
(***************************************************************************)
\* The number of times msg is among the plugin notices of the operation op.
TimesShown(op, msg) == Cardinality({i \in 1..Len(op.shown) : op.shown[i] = msg})

\* C21: a createNewDiagram call that creates its file and its pane ends with a
\* new pane of the diagram view, bound to the new file, which holds
\* EMPTY_DIAGRAM, and made active, and with exactly one 'New diagram created'
\* notice; a trusted init message then makes every such pane read its file, and
\* the handler of the pane, once the read has returned, posts to its editor one
\* load command whose xml is EMPTY_DIAGRAM.
C21_CreatedPaneLoadsTemplate ==
    [][/\ (last'.op = "create" /\ last'.call.made /\ last'.call.opened) =>
            LET leaf == last'.pane
            IN  /\ leaf \in Panes /\ view[leaf] = "none" /\ view'[leaf] = "open"
                /\ Lookup(vault, last'.call.fileName) = Absent
                /\ vault'[last'.call.fileName] = EMPTY_DIAGRAM
                /\ file'[leaf] = last'.call.fileName
                /\ last'.call.active = leaf
                /\ TimesShown(last', "New diagram created") = 1
                /\ TimesShown(last', "Error creating new diagram") = 0
       /\ TrustedMessage(last', "init") =>
            \A p \in Panes :
              view[p] = "open" =>
                 /\ Len(pending'[p]) = Len(pending[p]) + 1
                 /\ pending'[p][Len(pending'[p])].kind = "init"
                 /\ pending'[p][Len(pending'[p])].path = file[p]
       /\ last'.op = "initDone" =>
            posted'[last'.pane] =
               <<[action |-> "load", xml |-> EMPTY_DIAGRAM, autosave |-> 1]>>]_vars

\* The pane of a diagram created in folder T has just answered its editor's
\* init with the template.
C21_Witness ==
    /\ last.op = "initDone" /\ last.pane = "p1"
    /\ view["p1"] = "open" /\ file["p1"] = "T/diagram 3000.drawio"
    /\ posted["p1"] = <<[action |-> "load", xml |-> EMPTY_DIAGRAM, autosave |-> 1]>>
    /\ pending["p1"] = <<>>


(***************************************************************************)
(* The whole plugin around one open pane (specification SpecPlugin):       *)
(* messages, the settings controls, system theme changes and new diagrams. *)
(***************************************************************************)
\* The plugin has loaded and pane p1 is open on b.drawio, a diagram file that is
\* still empty; the folders a diagram can be asked for exist.
InitPlugin ==
    /\ settings = DEFAULT_SETTINGS
    /\ stored = [exists |-> FALSE, text |-> <<>>]
    /\ systemDark = FALSE
    /\ saving = 0
    /\ vault = [q \in Paths \cup {"T", "N", "E"} |->
                  IF q = "a.drawio" THEN Template
                  ELSE IF q = "b.drawio" THEN "" ELSE Folder]
    /\ view = [p \in Panes |-> IF p = "p1" THEN "open" ELSE "none"]
    /\ file = [p \in Panes |-> IF p = "p1" THEN "b.drawio" ELSE NoFile]
    /\ hasUnsavedChanges = [p \in Panes |-> FALSE]
    /\ lastSaveTime = [p \in Panes |-> 0]
    /\ pending = [p \in Panes |-> <<>>]
    /\ now = StartTime
    /\ msgs = 0
    /\ creates = 0
    /\ last = Op("open", "p1", "-", NoData)
    /\ posted = NoPosts /\ notices = NoNotices /\ prompts = NoPrompts

\* The messages of the editor's protocol that the handler has a case for.
ProtocolMessages ==
    {[event |-> e, xml |-> ""] : e \in {"init", "exit", "modified"}}
        \cup {[event |-> "save", xml |-> "c1"]}

\* Those of them that write to the dirty flag when they are trusted.
FlagMessages == {data \in ProtocolMessages : data.event \in {"save", "modified"}}

NextPlugin ==
    \/ \E data \in ProtocolMessages :
           \E answers \in Answers(data) : Dispatch(EmbedOrigin, data, answers)
    \/ \E origin \in Origins \ {EmbedOrigin}, data \in FlagMessages :
           Dispatch(origin, data, NoAnswers)
    \/ \E p \in Panes, i \in 1..MaxPending : WriteLand(p, i)
    \/ \E p \in Panes, i \in 1..MaxPending : SaveResume(p, i)
    \/ \E p \in Panes, i \in 1..MaxPending : ReadLand(p, i)
    \/ \E p \in Panes, i \in 1..MaxPending : InitResume(p, i)
    \/ \E value \in {"dark"} : ChangeTheme(value)
    \/ SaveSettingsResume
    \/ SystemThemeChange
    \/ \E leaf \in Panes : CreateNewDiagram(NoArg, NoArg, NoArg, {}, leaf)

SpecPlugin == InitPlugin /\ [][NextPlugin]_vars


\* The steps in which a handler of a trusted save message runs: its dispatch and
\* the continuation of pane p's handler after the write.
HandlesSave(op, p) ==
    \/ TrustedMessage(op, "save")
    \/ op.op = "saveDone" /\ op.pane = p /\ op.origin = EmbedOrigin
         /\ op.data.event = "save"

\* The steps the dirty flag is closed to: handling an init or exit message, a
\* theme update, a settings change, and the creation of a diagram.
KeepsFlag(op) ==
    \/ op.op = "message" /\ op.data.event \in {"init", "exit"}
    \/ op.op \in {"readLand", "initDone"}
    \/ op.op \in {"changeTheme", "settingsSaved", "systemTheme", "create"}

\* C31: a pane's dirty flag is false when the pane is created; it goes from
\* false to true only in the step that handles a trusted modified message and
\* from true to false only in a step of a handler of a trusted save message;
\* init and exit messages, theme updates, settings changes and the creation of
\* another diagram leave every pane's flag as it was; and the content of a
\* pane's bound file changes only as the write of a save handler lands.
C31_DirtyFlagTransitions ==
    [][/\ \A p \in Panes :
            /\ (view[p] = "none" /\ view'[p] # "none") => ~hasUnsavedChanges'[p]
            /\ (~hasUnsavedChanges[p] /\ hasUnsavedChanges'[p]) =>
                   TrustedMessage(last', "modified")
            /\ (hasUnsavedChanges[p] /\ ~hasUnsavedChanges'[p]) =>
                   HandlesSave(last', p)
            /\ (file[p] # NoFile /\ Lookup(vault', file[p]) # Lookup(vault, file[p])) =>
                   last'.op = "writeLand" /\ last'.data.event = "save"
       /\ KeepsFlag(last') => hasUnsavedChanges' = hasUnsavedChanges
       /\ (last'.op \in {"message", "readLand", "initDone"}
             /\ last'.data.event # "save") => vault' = vault]_vars

\* A diagram has just been created in a new pane, whose flag is false, while the
\* first pane, which has saved before, is dirty again and stays so.
C31_Witness ==
    /\ last.op = "create" /\ last.call.opened
    /\ last.pane = "p2" /\ ~hasUnsavedChanges["p2"]
    /\ hasUnsavedChanges["p1"] /\ lastSaveTime["p1"] > 0


\* The fields of a command.
Fields(cmd) == DOMAIN cmd

\* C32: every command posted to an editor has action load, blank, save or
\* theme; a load command is posted by the init handler of its pane as it
\* resumes and carries the non-empty content that handler read, which was the
\* content of the pane's bound file when the read took place; blank and save
\* commands carry nothing but their action; a theme command carries, besides
\* its action, only a value, dark or light.
C32_OutboundVocabulary ==
    [][/\ \A p \in Panes : \A i \in 1..Len(posted'[p]) :
            LET cmd == posted'[p][i]
            IN  /\ cmd.action \in {"load", "blank", "save", "theme"}
                /\ cmd.action = "load" =>
                     /\ Fields(cmd) = {"action", "xml", "autosave"}
                     /\ cmd.xml # ""
                     /\ last'.op = "initDone" /\ last'.pane = p
                     /\ cmd.xml = last'.data.xml
                     /\ \E j \in 1..Len(pending[p]) :
                          /\ Is(p, j, "init", "read")
                          /\ Handler(p, j).xml = cmd.xml
                          /\ pending'[p] = RemoveAt(pending[p], j)
                /\ cmd.action \in {"blank", "save"} => Fields(cmd) = {"action"}
                /\ cmd.action = "theme" =>
                     /\ Fields(cmd) = {"action", "value"}
                     /\ cmd.value \in {"dark", "light"}
       /\ last'.op = "readLand" =>
            \E j \in 1..Len(pending[last'.pane]) :
              /\ Is(last'.pane, j, "init", "reading")
              /\ pending'[last'.pane][j].stage = "read"
              /\ pending'[last'.pane][j].xml = Lookup(vault, file[last'.pane])
       /\ \A p \in Panes : \A j \in 1..Len(pending[p]) :
            (Is(p, j, "init", "read") /\ Len(pending'[p]) >= Len(pending[p])) =>
               pending'[p][j] = pending[p][j]]_vars

\* The first pane, whose file was empty when it opened, has just been sent a
\* load with the content a save wrote to it.
C32_Witness ==
    /\ last.op = "initDone" /\ last.pane = "p1"
    /\ posted["p1"] = <<LoadCommand("c1")>>
    /\ vault["b.drawio"] = "c1"

\* An init of the first pane, whose file is empty, has been answered with blank.
C32_WitnessBlank ==
    /\ last.op = "initDone" /\ last.pane = "p1"
    /\ posted["p1"] = <<BlankCommand>>

\* A dirty pane has been sent the save command after the user confirmed, and
\* a theme command has been sent before.
C32_WitnessSave ==
    /\ TrustedMessage(last, "exit")
    /\ posted["p1"] = <<SaveCommand>>
    /\ settings.theme = "dark"

=============================================================================
